---- MODULE Spec2Model ----
(***************************************************************************)
(* A model of convert_to_jxl.py: the batch conversion of the images of a   *)
(* directory tree to JPEG XL by one cjxl subprocess per file, run from a   *)
(* ThreadPoolExecutor, followed by the optional deletion of the originals. *)
(*                                                                         *)
(* The main thread is followed through main() and convert_all(); every     *)
(* submitted future is followed through convert_image().  The codec is an  *)
(* external program: what it writes, its exit code and whether it returns  *)
(* at all are nondeterministic.  The file system changes only through the  *)
(* codec subprocesses and through delete_originals.                        *)
(***************************************************************************)
EXTENDS Integers, Sequences, FiniteSets, TLC

\* ------------------------------------------------------------------ bounds
MaxFiles == 3          \* candidate originals the directory may hold
MaxWorkers == 2        \* thread counts the user may enter: 1..MaxWorkers
FewFiles == 2          \* originals the directory may hold in RunsSpec and LiveSpec

\* ------------------------------------------------------- program constants
DefaultWorkers == 8    \* max_workers when the input is below 1

SUPPORTED_FORMATS == {".jpg", ".jpeg", ".png", ".bmp", ".gif", ".tiff", ".tif", ".webp"}

MSG_EXISTS == "target file already exists"
MSG_TIMEOUT == "conversion timed out"
MSG_FAILED == "conversion failed"
MSG_OSERROR == "os error"
CodecStderr == {"cjxl: failed"}

\* ------------------------------------------------------------------- paths
\* A path is <<stem, suffix>>.  The i-th candidate original: stems come in
\* pairs that differ in the suffix only, and the even ones are upper case.
FileNo(i) == <<(i + 1) \div 2, IF i % 2 = 1 THEN ".png" ELSE ".JPG">>
Originals == {FileNo(i) : i \in 1..MaxFiles}
OtherFiles == {<<1, ".txt">>}
NoPath == <<0, "">>

Lower(suffix) == IF suffix = ".JPG" THEN ".jpg" ELSE suffix

with_suffix(p, suffix) == <<p[1], suffix>>
OutputOf(p) == with_suffix(p, ".jxl")
Outputs == {OutputOf(p) : p \in Originals}

\* What a path of the output holds: nothing, a half-written file or a whole
\* one, and which conversion of this run wrote it ("old": an earlier run or
\* anything else that was there before).
Absent == [kind |-> "none", by |-> NoPath]
Content(kind, by) == [kind |-> kind, by |-> by]
OldFile(kind) == [kind |-> kind, by |-> <<0, "old">>]
Exists(c) == c.kind # "none"

NoResult == [success |-> FALSE, original |-> NoPath, new_path |-> NoPath, error |-> "pending"]

VARIABLES
  phase,            \* where the main thread is
  dir,              \* the originals the directory holds
  disk,             \* output path -> content
  max_workers,      \* ImageConverter.max_workers
  images,           \* the list find_images returned
  nsub,             \* how many of images have been submitted to the pool
  work_queue,       \* the executor's queue of work items not yet taken
  task,             \* original -> state of its future
  result,           \* original -> what convert_image returned
  proc,             \* original -> its codec subprocess: none, running, exit0, exit1, killed
  converted_files,  \* ImageConverter.converted_files
  failed_files,     \* ImageConverter.failed_files
  completed,        \* the local counter of convert_all
  summary,          \* the counts the final summary printed
  waiter,           \* as_completed: the finished futures not yet handed over
  del,              \* delete_originals: position, deleted, failed
  prev,             \* the run before this one: its outcomes, whether it reached
                    \* the summary, whether it deleted originals
  env,              \* what the run finds: is the target a directory, is cjxl on the path
  seen              \* original -> the size of its output when convert_image found
                    \* the Success, and the size the status line printed

vars == <<phase, dir, disk, max_workers, images, nsub, work_queue, task,
          result, proc, converted_files, failed_files, completed,
          summary, waiter, del, prev, env, seen>>

batchVars == <<images, nsub, work_queue, task, result, proc,
               converted_files, failed_files, completed, summary, waiter, seen>>

\* ----------------------------------------------------------------- helpers
Range(s) == {s[i] : i \in 1..Len(s)}
Perms(S) == {s \in [1..Cardinality(S) -> S] : \A i, j \in 1..Cardinality(S) : i # j => s[i] # s[j]}
\* os.walk lists a directory in the order the file system gives: here the
\* order of the candidates' numbers
Listing(S) ==
  CHOOSE s \in Perms(S) : \A i, j \in 1..Len(s) : i < j =>
    \E a, b \in 1..MaxFiles : a < b /\ s[i] = FileNo(a) /\ s[j] = FileNo(b)

Listings == {Listing(S) : S \in SUBSET Originals}

Busy == {f \in Originals : task[f] = "codec"}

Outcome(r) ==
  IF r.success THEN "Success"
  ELSE IF r.error = MSG_EXISTS THEN "Skipped"
  ELSE "Failed"

NoSummary == [emitted |-> FALSE, success |-> 0, failed |-> 0, total_new |-> <<>>]
NoSeen == [success |-> "", line |-> ""]

\* lines 125, 146: what stat().st_size gives for an output file, as far as it
\* tells a file written in part from a whole one
st_size(c) == c.kind
Env == [isdir : BOOLEAN, which : BOOLEAN]
NoWaiter == [installed |-> FALSE, early |-> 0, order |-> <<>>]
NoDel == [i |-> 0, deleted |-> 0, failed |-> 0, answer |-> ""]
NoPrev == [ran |-> FALSE, outcome |-> [f \in Originals |-> "none"],
           complete |-> FALSE, deleted |-> FALSE]

\* ---------------------------------------------------------- convert_image
\* stderr.strip() or stdout.strip() or the generic message
ErrorMsg(stderr, stdout) ==
  IF stderr # "" THEN stderr ELSE IF stdout # "" THEN stdout ELSE MSG_FAILED

\* the exit code alone decides
ConvertResult_ExitOnly(image_path, returncode, out_exists, stderr, stdout) ==
  IF returncode = 0
  THEN [success |-> TRUE, original |-> image_path,
        new_path |-> OutputOf(image_path), error |-> ""]
  ELSE [success |-> FALSE, original |-> image_path,
        new_path |-> NoPath, error |-> ErrorMsg(stderr, stdout)]

\* lines 83-87: what convert_image returns once subprocess.run has returned
ConvertResult(image_path, returncode, out_exists, stderr, stdout) ==
  IF returncode = 0 /\ out_exists
  THEN [success |-> TRUE, original |-> image_path,
        new_path |-> OutputOf(image_path), error |-> ""]
  ELSE [success |-> FALSE, original |-> image_path,
        new_path |-> NoPath, error |-> ErrorMsg(stderr, stdout)]

\* an output that is already there reported as a conversion
SkipResult_AsConverted(image_path) ==
  [success |-> TRUE, original |-> image_path,
   new_path |-> OutputOf(image_path), error |-> ""]

\* line 60: the file is skipped
SkipResult(image_path) ==
  [success |-> FALSE, original |-> image_path,
   new_path |-> OutputOf(image_path), error |-> MSG_EXISTS]

\* a future that holds an exception instead of a value
ExceptionResult(image_path) ==
  [success |-> FALSE, original |-> image_path, new_path |-> NoPath, error |-> "raised"]
IsException(r) == r.error = "raised"

\* no except clause: what was raised leaves convert_image
FailResult_Raised(image_path, msg) == ExceptionResult(image_path)

\* lines 89-92: the except clauses turn what was raised into a value
FailResult(image_path, msg) ==
  [success |-> FALSE, original |-> image_path, new_path |-> NoPath, error |-> msg]

\* the test left out: every file is converted
OutputExists_Never(f) == FALSE

\* the test asks for a whole output file
OutputExists_WholeOnly(f) == disk[OutputOf(f)].kind = "full"

\* line 59: the test that guards the conversion
OutputExists(f) == Exists(disk[OutputOf(f)])

\* a pool that starts a thread for every item
WorkerFree_Unbounded == TRUE

\* the pool's bound on its threads
WorkerFree == Cardinality(Busy) < max_workers

\* ------------------------------------------------------------------- Init
Init ==
  /\ phase = "preflight"
  /\ dir \in SUBSET Originals
  /\ disk \in [Outputs -> {Absent, OldFile("full")}]
  /\ max_workers = DefaultWorkers
  /\ images = <<>>
  /\ nsub = 0
  /\ work_queue = <<>>
  /\ task = [f \in Originals |-> "none"]
  /\ result = [f \in Originals |-> NoResult]
  /\ proc = [f \in Originals |-> "none"]
  /\ converted_files = <<>>
  /\ failed_files = <<>>
  /\ completed = 0
  /\ summary = NoSummary
  /\ waiter = NoWaiter
  /\ del = NoDel
  /\ prev = NoPrev
  /\ env \in Env
  /\ seen = [f \in Originals |-> NoSeen]

\* ------------------------------------------------------------ main thread
\* the test for cjxl left out of __init__
Preflight_NoCodecTest(n) ==
  /\ phase = "preflight"
  /\ max_workers' = IF ~env.isdir THEN max_workers ELSE IF n < 1 THEN DefaultWorkers ELSE n
  /\ phase' = IF env.isdir THEN "find" ELSE "exit1"
  /\ UNCHANGED <<dir, disk, batchVars, del, prev, env>>

\* main(), lines 190-212: the directory test (exit code 1), then the thread
\* count, then the test for cjxl in ImageConverter.__init__ (exit code 1)
Preflight(n) ==
  /\ phase = "preflight"
  /\ max_workers' = IF ~env.isdir THEN max_workers ELSE IF n < 1 THEN DefaultWorkers ELSE n
  /\ phase' = IF env.isdir /\ env.which THEN "find" ELSE "exit1"
  /\ UNCHANGED <<dir, disk, batchVars, del, prev, env>>

\* without the return of line 100: the batch goes on with an empty list
FindImages_NoReturn(order) ==
  /\ phase = "find"
  /\ order = Listing({p \in dir \cup OtherFiles \cup {o \in Outputs : Exists(disk[o])} :
                          Lower(p[2]) \in SUPPORTED_FORMATS})
  /\ images' = order
  /\ phase' = IF order = <<>> THEN "collect" ELSE "submit"
  /\ UNCHANGED <<dir, disk, max_workers, nsub, work_queue, task, result,
                 proc, converted_files, failed_files, completed, summary, waiter, del, prev, env, seen>>

\* find_images, and the start of convert_all (lines 96-107)
FindImages(order) ==
  /\ phase = "find"
  /\ order = Listing({p \in dir \cup OtherFiles \cup {o \in Outputs : Exists(disk[o])} :
                          Lower(p[2]) \in SUPPORTED_FORMATS})
  /\ images' = order
  /\ phase' = IF order = <<>> THEN "exit0" ELSE "submit"
  /\ UNCHANGED <<dir, disk, max_workers, nsub, work_queue, task, result,
                 proc, converted_files, failed_files, completed, summary, waiter, del, prev, env, seen>>

\* line 109: executor.submit for the next image
Submit ==
  /\ phase = "submit"
  /\ nsub < Len(images)
  /\ nsub' = nsub + 1
  /\ work_queue' = Append(work_queue, images[nsub + 1])
  /\ task' = [task EXCEPT ![images[nsub + 1]] = "queued"]
  /\ phase' = IF nsub + 1 = Len(images) THEN "collect" ELSE "submit"
  /\ UNCHANGED <<dir, disk, max_workers, images, result, proc,
                 converted_files, failed_files, completed, summary, waiter, del, prev, env, seen>>

\* line 112, as_completed: the futures that had finished when it was called
\* are the first waiter.early entries of waiter.order
Early == {waiter.order[i] : i \in 1..waiter.early}

\* as_completed hands over what had finished before its call first, in the
\* order of a set, and then every other future in the order they finish
Yieldable(f) ==
  /\ waiter.installed
  /\ \/ f \in Early
     \/ waiter.early = 0 /\ waiter.order # <<>> /\ f = Head(waiter.order)

Yielded(f) ==
  [waiter EXCEPT !.order = SelectSeq(@, LAMBDA g : g # f),
                 !.early = IF f \in Early THEN @ - 1 ELSE @]

\* a future gets its result: while convert_all is in its with block the
\* future is added to those that finished, after the ones before it
Finished(f) ==
  IF phase \in {"submit", "collect"}
  THEN [waiter EXCEPT !.order = Append(@, f)]
  ELSE waiter

\* line 112: the call of as_completed, after the last submit: what has
\* finished by now is handed over first
AsCompleted ==
  /\ phase = "collect"
  /\ ~waiter.installed
  /\ waiter' = [waiter EXCEPT !.installed = TRUE, !.early = Len(waiter.order)]
  /\ UNCHANGED <<phase, dir, disk, max_workers, images, nsub, work_queue, task, result,
                 proc, converted_files, failed_files, completed, summary, del, prev, env, seen>>

\* every outcome put on converted_files, the failed and skipped ones too
Collect_RecordsAll(f) ==
  /\ phase = "collect"
  /\ task[f] = "done"
  /\ Yieldable(f)
  /\ task' = [task EXCEPT ![f] = "collected"]
  /\ completed' = completed + 1
  /\ phase' = phase
  /\ converted_files' = Append(converted_files, <<f, OutputOf(f)>>)
  /\ waiter' = Yielded(f)
  /\ UNCHANGED <<dir, disk, max_workers, images, nsub, work_queue,
                 result, proc, failed_files, summary, del, prev, env, seen>>

\* lines 112-133: as_completed hands over a finished future
Collect(f) ==
  /\ phase = "collect"
  /\ task[f] = "done"
  /\ Yieldable(f)
  /\ task' = [task EXCEPT ![f] = "collected"]
  /\ completed' = completed + 1
  /\ IF IsException(result[f])
     THEN \* future.result() raises what convert_image raised: nothing catches it
          /\ phase' = "crashed"
          /\ UNCHANGED <<converted_files, failed_files, seen>>
     ELSE /\ phase' = IF result[f].success /\ ~Exists(disk[result[f].new_path])
                      THEN "crashed"   \* stat() raises FileNotFoundError
                      ELSE phase
          /\ IF result[f].success
             THEN /\ converted_files' = Append(converted_files,
                                               <<result[f].original, result[f].new_path>>)
                  \* lines 124-125: the sizes are read from the files now
                  /\ seen' = [seen EXCEPT ![f].line = st_size(disk[result[f].new_path])]
                  /\ UNCHANGED failed_files
             ELSE /\ failed_files' = Append(failed_files,
                                            <<result[f].original, result[f].error>>)
                  /\ UNCHANGED <<converted_files, seen>>
  /\ waiter' = Yielded(f)
  /\ UNCHANGED <<dir, disk, max_workers, images, nsub, work_queue,
                 result, proc, summary, del, prev, env>>

\* the loop left after the first future
AllCollected_First == \E f \in Range(images) : task[f] = "collected"

\* line 112: as_completed has handed over every future
AllCollected == \A f \in Range(images) : task[f] = "collected"

\* lines 135-151: the loop is exhausted, the pool is left, the summary printed
Summary ==
  /\ phase = "collect"
  /\ AllCollected
  /\ summary' = [emitted |-> TRUE, success |-> Len(converted_files),
                 failed |-> Len(failed_files),
                 total_new |-> [i \in 1..Len(converted_files) |->
                                  st_size(disk[converted_files[i][2]])]]
  /\ phase' = IF converted_files # <<>> THEN "prompt" ELSE "exit0"
  /\ UNCHANGED <<dir, disk, max_workers, images, nsub, work_queue, task, result,
                 proc, converted_files, failed_files, completed, waiter, del, prev, env, seen>>

\* ---------------------------------------------------------- worker threads
\* A pool thread takes the oldest work item and runs convert_image up to the
\* test of line 59: the output is there, the file is skipped (lines 56-60)
Skip(f) ==
  /\ work_queue # <<>> /\ f = Head(work_queue)
  /\ WorkerFree
  /\ OutputExists(f)
  /\ work_queue' = Tail(work_queue)
  /\ result' = [result EXCEPT ![f] = SkipResult(f)]
  /\ task' = [task EXCEPT ![f] = "done"]
  /\ waiter' = Finished(f)
  /\ UNCHANGED <<phase, dir, disk, max_workers, images, nsub, proc,
                 converted_files, failed_files, completed, summary, del, prev, env, seen>>

\* lines 56-81: the output is not there, cjxl is started
Launch(f) ==
  /\ work_queue # <<>> /\ f = Head(work_queue)
  /\ WorkerFree
  /\ ~OutputExists(f)
  /\ work_queue' = Tail(work_queue)
  /\ task' = [task EXCEPT ![f] = "codec"]
  /\ proc' = [proc EXCEPT ![f] = "running"]
  /\ UNCHANGED <<phase, dir, disk, max_workers, images, nsub, result,
                 converted_files, failed_files, completed, summary, waiter, del, prev, env, seen>>

\* lines 91-92: starting the subprocess raises (an OSError of Popen)
LocalError(f) ==
  /\ work_queue # <<>> /\ f = Head(work_queue)
  /\ WorkerFree
  /\ ~OutputExists(f)
  /\ work_queue' = Tail(work_queue)
  /\ result' = [result EXCEPT ![f] = FailResult(f, MSG_OSERROR)]
  /\ task' = [task EXCEPT ![f] = "done"]
  /\ waiter' = Finished(f)
  /\ UNCHANGED <<phase, dir, disk, max_workers, images, nsub, proc,
                 converted_files, failed_files, completed, summary, del, prev, env, seen>>

\* The codec writes its output file: first a part of it, then the whole.
CodecWrite(f, kind) ==
  /\ task[f] = "codec"
  /\ disk[OutputOf(f)] # Content("full", f)
  /\ disk[OutputOf(f)] # Content(kind, f)
  /\ disk' = [disk EXCEPT ![OutputOf(f)] = Content(kind, f)]
  /\ UNCHANGED <<phase, dir, max_workers, images, nsub, work_queue, task, result,
                 proc, converted_files, failed_files, completed, summary, waiter, del, prev, env, seen>>

\* lines 76-87: the codec returns within the timeout
CodecExit(f, returncode, stderr) ==
  /\ task[f] = "codec"
  /\ result' = [result EXCEPT ![f] = ConvertResult(f, returncode, OutputExists(f), stderr, "")]
  /\ proc' = [proc EXCEPT ![f] = IF returncode = 0 THEN "exit0" ELSE "exit1"]
  /\ task' = [task EXCEPT ![f] = "done"]
  /\ waiter' = Finished(f)
  /\ seen' = IF result'[f].success
             THEN [seen EXCEPT ![f].success = st_size(disk[OutputOf(f)])]
             ELSE seen
  /\ UNCHANGED <<phase, dir, disk, max_workers, images, nsub, work_queue,
                 converted_files, failed_files, completed, summary, del, prev, env>>

\* subprocess.run without its timeout: nothing ends a codec that hangs
Timeout_Never(f) == FALSE /\ UNCHANGED vars

\* the worker thread itself puts its failure on failed_files
Timeout_RecordsFailure(f) ==
  /\ task[f] = "codec"
  /\ result' = [result EXCEPT ![f] = FailResult(f, MSG_TIMEOUT)]
  /\ proc' = [proc EXCEPT ![f] = "killed"]
  /\ task' = [task EXCEPT ![f] = "collected"]
  /\ failed_files' = Append(failed_files, <<f, MSG_TIMEOUT>>)
  /\ UNCHANGED <<phase, dir, disk, max_workers, images, nsub, work_queue,
                 converted_files, completed, summary, waiter, del, prev, env, seen>>

\* lines 80, 89-90: the codec has not returned after 300 seconds and is killed
Timeout(f) ==
  /\ task[f] = "codec"
  /\ result' = [result EXCEPT ![f] = FailResult(f, MSG_TIMEOUT)]
  /\ proc' = [proc EXCEPT ![f] = "killed"]
  /\ task' = [task EXCEPT ![f] = "done"]
  /\ waiter' = Finished(f)
  /\ UNCHANGED <<phase, dir, disk, max_workers, images, nsub, work_queue,
                 converted_files, failed_files, completed, summary, del, prev, env, seen>>

\* ------------------------------------------------------------- interrupt
\* lines 229-234: Ctrl-C raises KeyboardInterrupt in the main thread.  Inside
\* the with block of line 108 the executor's __exit__ runs shutdown(wait=True)
\* first: the pool takes no new submission, and the main thread waits for the
\* pool's threads, which work off every item already in the queue.
Interrupt ==
  /\ phase \in {"find", "submit", "collect", "prompt", "delete"}
  /\ phase' = IF phase \in {"submit", "collect"} THEN "shutdown" ELSE "cancelled"
  /\ waiter' = NoWaiter
  /\ UNCHANGED <<dir, disk, max_workers, images, nsub, work_queue, task, result,
                 proc, converted_files, failed_files, completed, summary, del, prev, env, seen>>

\* the pool's threads have ended: the exception reaches line 232, exit code 0
ShutdownDone ==
  /\ phase = "shutdown"
  /\ work_queue = <<>>
  /\ Busy = {}
  /\ phase' = "cancelled"
  /\ UNCHANGED <<dir, disk, max_workers, batchVars, del, prev, env>>

\* --------------------------------------------------------------- deletion
\* any answer taken for a yes
Respond_AlwaysDelete(answer) ==
  /\ phase = "prompt"
  /\ phase' = "delete"
  /\ del' = [i |-> 1, deleted |-> 0, failed |-> 0, answer |-> answer]
  /\ UNCHANGED <<dir, disk, max_workers, batchVars, prev, env>>

\* lines 216-226: the answer to "delete the originals?"; del.answer keeps the
\* last answer typed
Respond(answer) ==
  /\ phase = "prompt"
  /\ phase' = IF answer \in {"y", "yes"} THEN "delete"
              ELSE IF answer \in {"n", "no"} THEN "exit0"
              ELSE "prompt"
  /\ del' = IF answer \in {"y", "yes"}
            THEN [i |-> 1, deleted |-> 0, failed |-> 0, answer |-> answer]
            ELSE [del EXCEPT !.answer = answer]
  /\ UNCHANGED <<dir, disk, max_workers, batchVars, prev, env>>

\* no try around the unlink: the first failure ends the loop
DeleteStep_StopOnFailure(permitted) ==
  /\ phase = "delete"
  /\ del.i <= Len(converted_files)
  /\ LET original == converted_files[del.i][1]
     IN IF permitted /\ original \in dir
        THEN /\ dir' = dir \ {original}
             /\ del' = [del EXCEPT !.i = @ + 1, !.deleted = @ + 1]
             /\ phase' = phase
        ELSE /\ dir' = dir
             /\ del' = [del EXCEPT !.failed = @ + 1]
             /\ phase' = "exit0"
  /\ UNCHANGED <<disk, max_workers, batchVars, prev, env>>

\* lines 163-170: one unlink of delete_originals; permitted says whether the
\* file system lets the file be removed
DeleteStep(permitted) ==
  /\ phase = "delete"
  /\ del.i <= Len(converted_files)
  /\ LET original == converted_files[del.i][1]
     IN IF permitted /\ original \in dir
        THEN /\ dir' = dir \ {original}
             /\ del' = [del EXCEPT !.i = @ + 1, !.deleted = @ + 1]
        ELSE /\ dir' = dir
             /\ del' = [del EXCEPT !.i = @ + 1, !.failed = @ + 1]
  /\ UNCHANGED <<phase, disk, max_workers, batchVars, prev, env>>

\* line 172: the loop is over
DeleteDone ==
  /\ phase = "delete"
  /\ del.i > Len(converted_files)
  /\ phase' = "exit0"
  /\ UNCHANGED <<dir, disk, max_workers, batchVars, del, prev, env>>

\* ------------------------------------------------------------ the next run
\* The program has ended and is started again on the same directory: the
\* files stay, everything the process held is new.
NewRun ==
  /\ phase \in {"exit0", "exit1", "cancelled"}
  /\ phase' = "preflight"
  /\ disk' = [o \in Outputs |-> IF Exists(disk[o]) THEN OldFile(disk[o].kind) ELSE Absent]
  /\ prev' = [ran |-> TRUE,
              outcome |-> [f \in Originals |->
                 IF task[f] = "collected" THEN Outcome(result[f]) ELSE "none"],
              complete |-> summary.emitted,
              deleted |-> del.deleted > 0]
  /\ max_workers' = DefaultWorkers
  /\ images' = <<>>
  /\ nsub' = 0
  /\ work_queue' = <<>>
  /\ task' = [f \in Originals |-> "none"]
  /\ result' = [f \in Originals |-> NoResult]
  /\ proc' = [f \in Originals |-> "none"]
  /\ converted_files' = <<>>
  /\ failed_files' = <<>>
  /\ completed' = 0
  /\ summary' = NoSummary
  /\ waiter' = NoWaiter
  /\ del' = NoDel
  /\ env' \in Env
  /\ seen' = [f \in Originals |-> NoSeen]
  /\ UNCHANGED dir

\* the start of a run with one of the thread counts ns typed in
Start(ns) == \E n \in ns : Preflight(n)

Batch ==
  \/ \E order \in Listings : FindImages(order)
  \/ Submit
  \/ AsCompleted
  \/ \E f \in Originals : Collect(f)
  \/ Summary
  \/ \E f \in Originals : Skip(f)
  \/ \E f \in Originals : Launch(f)
  \/ \E f \in Originals : LocalError(f)
  \/ \E f \in Originals, k \in {"partial", "full"} : CodecWrite(f, k)
  \/ \E f \in Originals, rc \in {0, 1}, e \in CodecStderr : CodecExit(f, rc, e)
  \/ \E f \in Originals : Timeout(f)

\* One run of the program up to the end of the batch: the summary, or the
\* exit after an interrupt; with one thread, or with MaxWorkers of them (the
\* default count is typed in the runs on a smaller directory below).
Next ==
  \/ Start({1, MaxWorkers})
  \/ Batch
  \/ Interrupt
  \/ ShutdownDone

Spec == Init /\ [][Next]_vars

\* Whole runs, one after the other on the same directory: the batch, the
\* question about the originals, their deletion, and the next start.
InitFew ==
  /\ Init
  /\ dir \subseteq {FileNo(i) : i \in (MaxFiles - FewFiles + 1)..MaxFiles}

NextRuns ==
  \/ Start({0, 1})
  \/ Batch
  \/ Interrupt
  \/ ShutdownDone
  \/ \E answer \in {"y", "n", "x"} : Respond(answer)
  \/ \E permitted \in BOOLEAN : DeleteStep(permitted)
  \/ DeleteDone
  \/ NewRun

RunsSpec == InitFew /\ [][NextRuns]_vars

\* The batch alone, with the scheduling the program has: the main thread and
\* the pool's threads keep running, and the timer of subprocess.run ends a
\* codec that has not returned.  Nothing makes a codec return by itself.
NextLive ==
  \/ Start({0, 1})
  \/ Batch

LiveSpec ==
  /\ InitFew
  /\ [][NextLive]_vars
  /\ WF_vars(Start({0, 1}))
  /\ WF_vars(\E order \in Listings : FindImages(order))
  /\ WF_vars(Submit)
  /\ WF_vars(AsCompleted)
  /\ WF_vars(\E f \in Originals : Collect(f))
  /\ WF_vars(Summary)
  /\ WF_vars(\E f \in Originals : Skip(f) \/ Launch(f) \/ LocalError(f))
  /\ \A f \in Originals : WF_vars(Timeout(f))

\* ----------------------------------------------------------------- claims
Count(list, f) == Cardinality({i \in 1..Len(list) : list[i][1] = f})
Recorded(f) == Count(converted_files, f) + Count(failed_files, f)
HasOutcome(f, o) == task[f] \in {"done", "collected"} /\ Outcome(result[f]) = o

\* C1: when the summary is printed every discovered file is recorded exactly
\* once, in converted_files if and only if it was a Success, the two lists
\* add up to the number of discovered files, and no task is queued, running
\* or finished and not collected.
C1_SummaryCountsEveryFile ==
  summary.emitted =>
    /\ Range(images) = dir
    /\ \A f \in Range(images) :
         /\ Recorded(f) = 1
         /\ Count(converted_files, f) = 1 <=> Outcome(result[f]) = "Success"
    /\ Len(converted_files) + Len(failed_files) = Len(images)
    /\ summary.success + summary.failed = Cardinality(dir)
    /\ \A f \in Originals : task[f] \in {"none", "collected"}
    /\ work_queue = <<>>

C1_Witness ==
  /\ summary.emitted
  /\ Len(images) = 3
  /\ Len(converted_files) = 1
  /\ \E f, g \in Range(images) : HasOutcome(f, "Skipped") /\ HasOutcome(g, "Failed")

\* C2: the conversions running at the same time are never more than
\* max_workers and never more than the discovered files.
C2_AtMostNRunning ==
  /\ Cardinality(Busy) <= max_workers
  /\ Cardinality(Busy) <= Len(images)

C2_Witness ==
  /\ Cardinality(Busy) = max_workers
  /\ max_workers = 2
  /\ work_queue # <<>>

\* C3: every submitted task ends with an outcome and the batch reaches its
\* summary, whatever the codecs do; a codec ended by the timeout gives
\* Failed("conversion timed out") and no longer holds a thread.
C3_EveryTaskEndsAndSummary ==
  /\ (phase = "submit") ~> (summary.emitted /\ \A f \in Range(images) : task[f] = "collected")
  /\ [](\A f \in Originals : proc[f] = "killed" =>
          /\ task[f] \in {"done", "collected"}
          /\ result[f] = [success |-> FALSE, original |-> f,
                          new_path |-> NoPath, error |-> MSG_TIMEOUT])

C3_Witness ==
  /\ summary.emitted
  /\ \E f, g \in Range(images) : proc[f] = "killed" /\ HasOutcome(g, "Success")

\* C4 (as claimed): when the program ends, also after an interrupt, every
\* discovered file has had its task and has exactly one outcome recorded.
C4_EveryFileRecordedAtExit ==
  phase \in {"exit0", "cancelled"} =>
    \A f \in Range(images) : task[f] # "none" /\ Recorded(f) = 1

\* C5 (as claimed): after an interrupt no task that was still queued is
\* started.
C5_NoStartAfterInterrupt ==
  [][phase = "shutdown" =>
       \A f \in Originals : task[f] = "queued" => task'[f] = "queued"]_vars

\* C6: convert_image always hands back a value, never an exception; the step
\* that ends one file in a failure touches no other task and not the main
\* thread; the main thread is never brought down by a future.
C6_ErrorsContained ==
  /\ [](phase # "crashed")
  /\ [](\A f \in Originals : task[f] \in {"done", "collected"} =>
          /\ ~IsException(result[f])
          /\ result[f].original = f
          /\ result[f].success \/ result[f].error # "")
  /\ [][\A f \in Originals :
          (task[f] # "done" /\ task'[f] = "done" /\ ~result'[f].success) =>
             /\ phase' = phase
             /\ \A g \in Originals \ {f} : task'[g] = task[g] /\ result'[g] = result[g]
             /\ converted_files' = converted_files
             /\ failed_files' = failed_files]_vars

C6_Witness ==
  /\ summary.emitted
  /\ \E f, g, h \in Range(images) :
       /\ result[f].error = MSG_TIMEOUT
       /\ result[g].error = MSG_OSERROR
       /\ HasOutcome(h, "Success")

\* C7 (as claimed): in a run that follows a complete run that deleted
\* nothing, every file is Skipped.
C7_RerunSkipsEverything ==
  (prev.ran /\ prev.complete /\ ~prev.deleted) =>
    \A f \in Originals : task[f] \in {"done", "collected"} => Outcome(result[f]) = "Skipped"

\* C7 (amended): in a run that follows a complete run that deleted nothing,
\* every file that was a Success or Skipped in that run is Skipped.
C7_RerunSkipsConverted ==
  (prev.ran /\ prev.complete /\ ~prev.deleted) =>
    \A f \in Originals :
      (prev.outcome[f] \in {"Success", "Skipped"} /\ task[f] \in {"done", "collected"})
         => (Outcome(result[f]) = "Skipped" /\ proc[f] = "none")

C7_Witness ==
  /\ prev.ran /\ prev.complete /\ ~prev.deleted
  /\ summary.emitted
  /\ \E f, g \in Range(images) :
       /\ prev.outcome[f] = "Success" /\ HasOutcome(f, "Skipped")
       /\ prev.outcome[g] = "Failed" /\ HasOutcome(g, "Success")

\* C8: a file whose output exists when it is tested is Skipped in that very
\* step, with no codec started for it and the disk as it was; a Skipped file
\* never had a codec; an output that was there before the run is never
\* written in the run.
C8_SkipLeavesOutput ==
  /\ [][\A f \in Originals :
          (work_queue # <<>> /\ f = Head(work_queue) /\ Exists(disk[OutputOf(f)])
             /\ task'[f] # task[f]) =>
               /\ task'[f] = "done"
               /\ result'[f].error = MSG_EXISTS /\ ~result'[f].success
               /\ proc'[f] = "none"
               /\ disk' = disk]_vars
  /\ [](\A f \in Originals : HasOutcome(f, "Skipped") => proc[f] = "none")
  /\ [][\A o \in Outputs : disk[o] \in {OldFile("partial"), OldFile("full")}
                             => disk'[o] = disk[o]]_vars

C8_Witness ==
  \E f, g, h \in Originals :
    /\ HasOutcome(f, "Skipped") /\ disk[OutputOf(f)] = OldFile("full")
    /\ HasOutcome(g, "Skipped") /\ disk[OutputOf(g)].by = h /\ task[h] = "codec"

\* C9: a half-written output left by an earlier run is never the basis of a
\* Success: the file whose output path holds it gets no codec, ends Skipped
\* and never enters converted_files.
C9_PartialNeverSuccess ==
  \A f \in Originals :
    disk[OutputOf(f)] = OldFile("partial") =>
      /\ proc[f] = "none"
      /\ task[f] \in {"done", "collected"} => Outcome(result[f]) = "Skipped"
      /\ Count(converted_files, f) = 0

C9_Witness ==
  \E f \in Originals :
    /\ disk[OutputOf(f)] = OldFile("partial")
    /\ prev.outcome[f] = "Failed"
    /\ task[f] = "collected" /\ Outcome(result[f]) = "Skipped"
    /\ summary.emitted

\* C10: the step in which a codec returns gives Success exactly when the exit
\* code is 0 and the output exists at that moment; a Success always had exit
\* code 0; the summary counts the Successes and, as failed or skipped, all
\* other files.
C10_SuccessIffExitZeroAndOutput ==
  /\ [][\A f \in Originals :
          (task[f] = "codec" /\ task'[f] = "done" /\ proc'[f] # "killed") =>
             (result'[f].success <=> (proc'[f] = "exit0" /\ Exists(disk'[OutputOf(f)])))]_vars
  /\ [](\A f \in Originals : task[f] \in {"done", "collected"} =>
          /\ result[f].success => (proc[f] = "exit0" /\ Exists(disk[OutputOf(f)]))
          /\ proc[f] \in {"none", "exit1", "killed"} => ~result[f].success
          /\ (proc[f] = "exit0" /\ ~Exists(disk[OutputOf(f)])) => ~result[f].success)
  /\ [](summary.emitted =>
          /\ summary.success = Cardinality({f \in Range(images) : proc[f] = "exit0" /\ result[f].success})
          /\ summary.failed = Len(images) - summary.success)

C10_Witness ==
  /\ summary.emitted
  /\ summary.success = 1 /\ summary.failed = 2
  /\ \E a, b, c \in Range(images) :
       /\ HasOutcome(a, "Success")
       /\ HasOutcome(b, "Skipped")
       /\ HasOutcome(c, "Failed") /\ proc[c] = "exit1"

\* C11: no original is deleted while the batch runs: the directory changes
\* only in the deletion loop, which is entered after the summary, with every
\* task collected, on the answer yes; every Success has its original and its
\* output on disk until then; the answer no ends the run with nothing deleted.
C11_DeleteOnlyAfterYes ==
  /\ [][dir' # dir =>
          /\ phase = "delete" /\ phase' = "delete"
          /\ del.answer \in {"y", "yes"}
          /\ summary.emitted /\ AllCollected
          /\ work_queue = <<>> /\ Busy = {}]_vars
  /\ [](phase \in {"submit", "collect", "shutdown", "prompt"} =>
          \A f \in Originals : HasOutcome(f, "Success") =>
             f \in dir /\ OutputExists(f))
  /\ [](phase = "delete" => del.answer \in {"y", "yes"} /\ summary.emitted)
  /\ [](del.answer \in {"n", "no"} =>
          /\ phase = "exit0"
          /\ del.i = 0 /\ del.deleted = 0
          /\ \A f \in Originals : HasOutcome(f, "Success") => f \in dir)

C11_Witness ==
  /\ phase = "exit0"
  /\ del.answer = "y"
  /\ del.deleted >= 1
  /\ \E f \in Originals : HasOutcome(f, "Success") /\ f \notin dir /\ OutputExists(f)
  /\ \E g \in Originals : HasOutcome(g, "Failed") /\ g \in dir

\* C12: delete_originals makes one attempt for each entry of converted_files,
\* in turn: every attempt counts as deleted or as failed, a failed attempt is
\* followed by the next entry, and when the loop is left deleted + failed is
\* the length of the list; with an empty list the loop is never entered.
C12_OneAttemptPerEntry ==
  /\ [](phase = "delete" =>
          /\ del.i \in 1..(Len(converted_files) + 1)
          /\ del.deleted + del.failed = del.i - 1)
  /\ [][phase = "delete" /\ del' # del =>
          /\ del.i <= Len(converted_files)
          /\ del'.i = del.i + 1
          /\ del'.deleted + del'.failed = del.deleted + del.failed + 1
          /\ phase' = "delete"]_vars
  /\ [][phase = "delete" /\ phase' = "exit0" =>
          /\ del.i = Len(converted_files) + 1
          /\ del.deleted + del.failed = Len(converted_files)]_vars
  /\ [](converted_files = <<>> => phase \notin {"prompt", "delete"} /\ del = NoDel)

C12_Witness ==
  /\ phase = "exit0"
  /\ Len(converted_files) = 2
  /\ del.i = 3 /\ del.deleted = 1 /\ del.failed = 1
  /\ converted_files[1][1] \in dir
  /\ converted_files[2][1] \notin dir

\* C13: a file that leaves the directory in the deletion loop is an original
\* that this run converted (its codec returned 0 and its outcome, collected
\* on converted_files, is Success); a Skipped or Failed original stays; the
\* deletion loop changes no output file.
C13_OnlyConvertedOriginalsDeleted ==
  /\ [][\A f \in dir \ dir' :
          /\ task[f] = "collected"
          /\ Outcome(result[f]) = "Success"
          /\ proc[f] = "exit0"
          /\ Count(converted_files, f) = 1]_vars
  /\ [][phase = "delete" => disk' = disk]_vars
  /\ [](phase \in {"prompt", "delete", "exit0", "cancelled"} =>
          \A f \in Range(images) :
             (HasOutcome(f, "Skipped") \/ HasOutcome(f, "Failed")) => f \in dir)

C13_Witness ==
  /\ phase = "exit0"
  /\ del.deleted = 1 /\ del.failed = 0
  /\ \E f, g \in Range(images) :
       /\ HasOutcome(f, "Success") /\ f \notin dir
       /\ HasOutcome(g, "Skipped") /\ g \in dir
       /\ OutputExists(f) /\ OutputExists(g)

\* C14: outcomes are reported in the order the conversions finish: the future
\* that convert_all takes next is the one that finished first among those
\* that have finished and are not reported yet.
C14_ReportedInFinishOrder ==
  [][\A f \in Originals :
       task[f] = "done" /\ task'[f] = "collected" => f = Head(waiter.order)]_vars

\* C15: when the target is not a directory or cjxl is not found the run ends
\* with exit code 1 straight from its first tests, and only then; no file was
\* looked for, no task created, no codec started, nothing reported or deleted.
NothingDone ==
  /\ images = <<>> /\ nsub = 0 /\ work_queue = <<>>
  /\ \A f \in Originals : task[f] = "none" /\ proc[f] = "none" /\ result[f] = NoResult
  /\ converted_files = <<>> /\ failed_files = <<>> /\ completed = 0
  /\ summary = NoSummary /\ waiter = NoWaiter /\ del = NoDel

C15_FatalPreflight ==
  /\ [](~env.isdir \/ ~env.which => phase \in {"preflight", "exit1"} /\ NothingDone)
  /\ [](phase = "exit1" => ~env.isdir \/ ~env.which)
  /\ [][phase = "preflight" /\ (~env.isdir \/ ~env.which) =>
          phase' = "exit1" /\ dir' = dir /\ disk' = disk]_vars

C15_Witness ==
  /\ phase = "exit1"
  /\ env.isdir /\ ~env.which
  /\ Cardinality(dir) = 2
  /\ NothingDone

\* C16: when find_images finds no image the run ends at once with exit code
\* 0: nothing is submitted to a pool, no task and no outcome exist, no
\* summary is printed, the question about the originals is not asked and
\* nothing is deleted.
C16_NoFilesNoWork ==
  /\ [](images = <<>> =>
          /\ phase \in {"preflight", "find", "exit0", "exit1", "cancelled"}
          /\ NothingDone)
  /\ [][phase = "find" /\ dir = {} =>
          phase' \in {"exit0", "cancelled"} /\ images' = <<>> /\ dir' = dir /\ disk' = disk]_vars

C16_Witness ==
  /\ phase = "exit0"
  /\ env.isdir /\ env.which
  /\ images = <<>> /\ dir = {}
  /\ \E o \in Outputs : Exists(disk[o])
  /\ prev.ran /\ prev.deleted

\* C17: the output size reported for a Success, in its status line and in
\* the totals of the summary, is the size the output had when convert_image
\* found the Success.
C17_SizesAsOfSuccess ==
  /\ \A f \in Originals :
       task[f] = "collected" /\ result[f].success => seen[f].line = seen[f].success
  /\ summary.emitted =>
       \A i \in 1..Len(converted_files) :
          summary.total_new[i] = seen[converted_files[i][1]].success

\* C18: converted_files, failed_files and completed change only in a step of
\* the main thread's loop over as_completed, which takes one finished future
\* and records that one outcome: one entry more on one of the two lists,
\* completed one higher; the steps of the worker threads (taking a work item,
\* the codec, its end) leave all three as they are.  (A step to "preflight"
\* is the start of another process.)
C18_OnlyConsumerWrites ==
  /\ [][<<converted_files, failed_files, completed>>' # <<converted_files, failed_files, completed>>
          /\ phase' # "preflight" =>
          /\ phase = "collect" /\ waiter.installed
          /\ completed' = completed + 1
          /\ Len(converted_files') + Len(failed_files') =
               Len(converted_files) + Len(failed_files) + 1
          /\ \E f \in Originals :
               /\ task[f] = "done" /\ task'[f] = "collected"
               /\ Recorded(f) = 0 /\ Recorded(f)' = 1
               /\ \A g \in Originals \ {f} : task'[g] = task[g]
          /\ UNCHANGED <<result, proc, disk, work_queue>>]_vars
  /\ [][(result' # result \/ proc' # proc \/ disk' # disk \/ Len(work_queue') < Len(work_queue))
          /\ phase' # "preflight" =>
          /\ UNCHANGED <<converted_files, failed_files, completed>>
          /\ \A f \in Originals : task'[f] = "collected" => task[f] = "collected"]_vars

C18_Witness ==
  /\ phase = "collect"
  /\ completed = 1
  /\ Len(converted_files) = 1
  /\ \E f, g \in Range(images) :
       /\ task[f] = "collected" /\ Recorded(f) = 1
       /\ task[g] = "codec" /\ disk[OutputOf(g)] = Content("partial", g)

\* C19: two originals with the same output path are never both a Success of
\* one batch, and their codecs never run at the same time.
C19_OneWriterPerOutput ==
  \A f, g \in Originals :
     f # g /\ OutputOf(f) = OutputOf(g) =>
        /\ ~(HasOutcome(f, "Success") /\ HasOutcome(g, "Success"))
        /\ ~(task[f] = "codec" /\ task[g] = "codec")
====
